---- MODULE Spec2Model ----
(***************************************************************************)
(* Median-cut colour quantisation of the iris crate: ColorBucket           *)
(* (src/src/color_bucket.rs), Color / ColorChannel (src/src/color.rs) and  *)
(* mean (src/src/utils.rs).                                                *)
(*                                                                         *)
(* A Color is a record [r, g, b, a] of u8 values.  A ColorBucket is the    *)
(* sequence of its colors; Option<ColorBucket> is a record                 *)
(* [some, colors] with colors = <<>> when some = FALSE.  Rust vectors are  *)
(* 0-indexed, TLA+ sequences 1-indexed: index i of the code is i + 1 here. *)
(***************************************************************************)
EXTENDS Integers, Sequences, FiniteSets

\* ------------------------------------------------------------------ bounds

\* Longest pixel sequence handed to from_pixels.
MaxLen == 4

\* Largest iteration count handed to make_palette.
MaxIter == 2

\* ----------------------------------------------------------- input universe

\* u8: the width of every channel (color.rs:7-10) and of mean's result.
U8 == 256

\* The four colours of generate_unsorted_colors (color_bucket.rs:374-381).
U1 == [r |-> 55, g |-> 17, b |-> 0, a |-> 118]
U2 == [r |-> 0, g |-> 2, b |-> 1, a |-> 20]
U3 == [r |-> 3, g |-> 4, b |-> 15, a |-> 2]
U4 == [r |-> 1, g |-> 23, b |-> 16, a |-> 20]

\* A saturated red, and white with alpha 0 (as in make_palette_ut,
\* color_bucket.rs:230) and with alpha 255: two colours that differ in alpha
\* only, channel sums above 255, and buckets whose ranges tie (R = G, G = B,
\* R = B, all three) or have B above R = G.
RED == [r |-> 255, g |-> 1, b |-> 1, a |-> 0]
W == [r |-> 255, g |-> 255, b |-> 255, a |-> 0]
WA == [r |-> 255, g |-> 255, b |-> 255, a |-> 255]

Universe == {U1, U2, U3, U4, RED, W, WA}

\* Every pixel sequence of at most MaxLen colours, the empty one included.
Inputs == UNION {[1..n -> Universe] : n \in 0..MaxLen}

\* ------------------------------------------------------- Color, ColorChannel

ColorChannel == {"R", "G", "B", "A"}

\* impl Index<ColorChannel> for Color
Index(color, channel) ==
    CASE channel = "R" -> color.r
      [] channel = "G" -> color.g
      [] channel = "B" -> color.b
      [] channel = "A" -> color.a

\* ------------------------------------------------------------------- mean

RECURSIVE Sum(_)
\* iter.map(|x| x as u64).sum::<u64>(): the u64 accumulator holds the exact
\* sum of any sequence shorter than 2^56 values, so it is the plain sum here.
Sum(vals) == IF vals = <<>> THEN 0 ELSE Head(vals) + Sum(Tail(vals))

\* A mean that rounds to nearest instead of truncating.
mean_rounding(vals) == ((2 * Sum(vals) + Len(vals)) \div (2 * Len(vals))) % U8

\* sum / count panics (division by zero) when the iterator is empty.
mean_panics(vals) == Len(vals) = 0

\* (sum / count) as u8
mean(vals) == (Sum(vals) \div Len(vals)) % U8

\* ------------------------------------------------------------ ColorBucket

None == [some |-> FALSE, colors |-> <<>>]
Some(colors) == [some |-> TRUE, colors |-> colors]

\* from_pixels that wraps an empty vector too.
from_pixels_any(pixels) == Some(pixels)

\* from_pixels that also refuses a single pixel.
from_pixels_short(pixels) == IF Len(pixels) <= 1 THEN None ELSE Some(pixels)

from_pixels(pixels) == IF pixels = <<>> THEN None ELSE Some(pixels)

\* self.colors.iter().map(|x| x[channel])
ChannelValues(colors, channel) ==
    [i \in 1..Len(colors) |-> Index(colors[i], channel)]

channel_mean(colors, channel) == mean(ChannelValues(colors, channel))

color_mean(colors) ==
    [r |-> mean(ChannelValues(colors, "R")),
     g |-> mean(ChannelValues(colors, "G")),
     b |-> mean(ChannelValues(colors, "B")),
     a |-> mean(ChannelValues(colors, "A"))]

\* color_mean panics when one of its four means does.
color_mean_panics(colors) ==
    \E channel \in ColorChannel : mean_panics(ChannelValues(colors, channel))

channel_value_by_index(colors, index, channel) == Index(colors[index + 1], channel)

\* max_by_key(..).unwrap().ch and min_by_key(..).unwrap().ch: the largest
\* and the smallest value of the channel.
MaxOf(colors, channel) ==
    CHOOSE v \in {Index(colors[i], channel) : i \in 1..Len(colors)} :
        \A i \in 1..Len(colors) : Index(colors[i], channel) <= v
MinOf(colors, channel) ==
    CHOOSE v \in {Index(colors[i], channel) : i \in 1..Len(colors)} :
        \A i \in 1..Len(colors) : Index(colors[i], channel) >= v

color_ranges(colors) ==
    [r |-> MaxOf(colors, "R") - MinOf(colors, "R"),
     g |-> MaxOf(colors, "G") - MinOf(colors, "G"),
     b |-> MaxOf(colors, "B") - MinOf(colors, "B"),
     a |-> MaxOf(colors, "A") - MinOf(colors, "A")]

\* color_ranges panics when max_by_key / min_by_key return None (unwrap on
\* an empty vector) or when the u8 subtraction max - min goes below 0.
color_ranges_panics(colors) ==
    \/ Len(colors) = 0
    \/ \E channel \in ColorChannel : MaxOf(colors, channel) - MinOf(colors, channel) < 0

\* highest_range_channel with >= in both comparisons (ties go to the later
\* channel).
highest_range_channel_ge(colors) ==
    LET ranges == color_ranges(colors)
        afterG == IF ranges.g >= ranges.r
                    THEN [ch |-> "G", v |-> ranges.g]
                    ELSE [ch |-> "R", v |-> ranges.r]
    IN  IF ranges.b >= afterG.v THEN "B" ELSE afterG.ch

\* highest_range_channel that lets alpha compete as a fourth channel.
highest_range_channel_alpha(colors) ==
    LET ranges == color_ranges(colors)
        afterG == IF ranges.g > ranges.r
                    THEN [ch |-> "G", v |-> ranges.g]
                    ELSE [ch |-> "R", v |-> ranges.r]
        afterB == IF ranges.b > afterG.v
                    THEN [ch |-> "B", v |-> ranges.b]
                    ELSE afterG
    IN  IF ranges.a > afterB.v THEN "A" ELSE afterB.ch

highest_range_channel(colors) ==
    LET ranges == color_ranges(colors)
        \* after `if ranges.g > highest_value`
        afterG == IF ranges.g > ranges.r
                    THEN [ch |-> "G", v |-> ranges.g]
                    ELSE [ch |-> "R", v |-> ranges.r]
    IN  \* `if ranges.b > highest_value`
        IF ranges.b > afterG.v THEN "B" ELSE afterG.ch

\* Vec::sort_by_key is a stable sort: c goes after every element whose key
\* is not greater than its own.
RECURSIVE InsertByKey(_, _, _)
InsertByKey(sorted, c, channel) ==
    IF sorted = <<>> THEN <<c>>
    ELSE IF Index(Head(sorted), channel) <= Index(c, channel)
         THEN <<Head(sorted)>> \o InsertByKey(Tail(sorted), c, channel)
         ELSE <<c>> \o sorted

RECURSIVE SortFrom(_, _, _)
SortFrom(sorted, rest, channel) ==
    IF rest = <<>> THEN sorted
    ELSE SortFrom(InsertByKey(sorted, Head(rest), channel), Tail(rest), channel)

\* self.colors after sort_colors(channel)
sort_colors(colors, channel) == SortFrom(<<>>, colors, channel)

\* color_median that skips sort_colors and reads self.colors as they are.
color_median_unsorted(colors, channel) ==
    LET mid == Len(colors) \div 2
    IN  IF Len(colors) % 2 = 0
          THEN channel_mean(<<colors[(mid - 1) + 1], colors[mid + 1]>>, channel)
          ELSE channel_value_by_index(colors, mid, channel)

\* color_median that takes the upper middle value for an even count too.
color_median_upper(colors, channel) ==
    channel_value_by_index(sort_colors(colors, channel), Len(colors) \div 2, channel)

\* color_median whose even case averages the first and the last value.
color_median_ends(colors, channel) ==
    LET sorted == sort_colors(colors, channel)
        mid == Len(sorted) \div 2
    IN  IF Len(sorted) % 2 = 0
          THEN channel_mean(<<sorted[1], sorted[Len(sorted)]>>, channel)
          ELSE channel_value_by_index(sorted, mid, channel)

\* color_median panics when the usize mid - 1 of the even case goes below 0,
\* when an index is past the end, or when channel_mean divides by zero.
color_median_panics(colors, channel) ==
    LET mid == Len(colors) \div 2
    IN  IF Len(colors) % 2 = 0
          THEN mid - 1 < 0 \/ mid >= Len(colors) \/ mean_panics(<<mid - 1, mid>>)
          ELSE mid >= Len(colors)

\* The value color_median returns (it leaves self.colors sorted by channel).
color_median(colors, channel) ==
    LET sorted == sort_colors(colors, channel)
        mid == Len(sorted) \div 2
    IN  IF Len(sorted) % 2 = 0
          THEN channel_mean(<<sorted[(mid - 1) + 1], sorted[mid + 1]>>, channel)
          ELSE channel_value_by_index(sorted, mid, channel)

\* The test of median_cut's loop: does the colour go to above_median?
goes_above_ge(color, channel, median) == Index(color, channel) >= median

goes_above(color, channel, median) == Index(color, channel) > median

\* The two vectors median_cut's loop fills, in the order of the sorted self.
above_median(sorted, channel, median) ==
    SelectSeq(sorted, LAMBDA c : goes_above(c, channel, median))

\* below_median that drops the colours equal to the median.
below_median_strict(sorted, channel, median) ==
    SelectSeq(sorted, LAMBDA c : Index(c, channel) < median)

below_median(sorted, channel, median) ==
    SelectSeq(sorted, LAMBDA c : ~goes_above(c, channel, median))

\* median_cut: the pair it returns (above, below), with the channel and the
\* median it used and self.colors as color_median left them.
median_cut(colors) ==
    LET channel == highest_range_channel(colors)
        median == color_median(colors, channel)
        sorted == sort_colors(colors, channel)
    IN  [above |-> from_pixels(above_median(sorted, channel, median)),
         below |-> from_pixels(below_median(sorted, channel, median)),
         channel |-> channel,
         median |-> median,
         self |-> sorted]

\* median_cut panics when highest_range_channel (color_ranges) or
\* color_median does.
median_cut_panics(colors) ==
    \/ color_ranges_panics(colors)
    \/ color_median_panics(colors, highest_range_channel(colors))

\* One pending call of recurse: the bucket it runs on, its iter_count, and
\* how many calls deep below make_palette it is.
Call(colors, iter_count, depth) ==
    [colors |-> colors, iter_count |-> iter_count, depth |-> depth]

\* The recursive calls of one recurse body, in the order they are made.
\* Visiting below before above.
calls_below_first(cut, iter_count, depth) ==
    (IF cut.below.some THEN <<Call(cut.below.colors, iter_count - 1, depth + 1)>> ELSE <<>>)
    \o (IF cut.above.some THEN <<Call(cut.above.colors, iter_count - 1, depth + 1)>> ELSE <<>>)

\* Emitting one level early: the children are called with iter_count 0.
calls_early(cut, iter_count, depth) ==
    (IF cut.above.some THEN <<Call(cut.above.colors, 0, depth + 1)>> ELSE <<>>)
    \o (IF cut.below.some THEN <<Call(cut.below.colors, 0, depth + 1)>> ELSE <<>>)

\* `if let Some(mut bucket) = new_buckets.0 { bucket.recurse(iter_count - 1) }`
\* then the same for new_buckets.1.
calls(cut, iter_count, depth) ==
    (IF cut.above.some THEN <<Call(cut.above.colors, iter_count - 1, depth + 1)>> ELSE <<>>)
    \o (IF cut.below.some THEN <<Call(cut.below.colors, iter_count - 1, depth + 1)>> ELSE <<>>)

\* ------------------------------------------------------------------ state

VARIABLES
    pixels,     \* the Vec<Color> handed to from_pixels
    bucket,     \* Option<ColorBucket>: what from_pixels returned (self of the later calls)
    pc,         \* "start", "none", "built", "running", "done", "median", "panic"
    iter,       \* the iter_count handed to make_palette
    stack,      \* the calls of recurse still to run, the next one first
    result,     \* make_palette's result vector
    lastCut,    \* the latest median_cut: its self on entry and what it returned
    lastEmit,   \* the latest result.push: the bucket reduced and its depth
    degenerate, \* some median_cut of this make_palette returned a None side
    medianOut   \* what a direct color_median call returned, and its channel

vars == <<pixels, bucket, pc, iter, stack, result, lastCut, lastEmit, degenerate, medianOut>>

NoCut == [some |-> FALSE, input |-> <<>>, above |-> None, below |-> None,
          channel |-> "R", median |-> 0, self |-> <<>>]
NoEmit == [some |-> FALSE, colors |-> <<>>, depth |-> 0, color |-> W]
NoMedian == [some |-> FALSE, input |-> <<>>, channel |-> "R", median |-> 0]

Init ==
    /\ pixels \in Inputs
    /\ bucket = None
    /\ pc = "start"
    /\ iter = 0
    /\ stack = <<>>
    /\ result = <<>>
    /\ lastCut = NoCut
    /\ lastEmit = NoEmit
    /\ degenerate = FALSE
    /\ medianOut = NoMedian

\* ColorBucket::from_pixels(pixels)
FromPixels ==
    /\ pc = "start"
    /\ bucket' = from_pixels(pixels)
    /\ pc' = IF bucket'.some THEN "built" ELSE "none"
    /\ UNCHANGED <<pixels, iter, stack, result, lastCut, lastEmit, degenerate, medianOut>>

\* bucket.make_palette(n): result = vec![] and the call self.recurse(n, &mut result)
MakePalette(n) ==
    /\ pc = "built"
    /\ iter' = n
    /\ result' = <<>>
    /\ stack' = <<Call(bucket.colors, n, 0)>>
    /\ pc' = "running"
    /\ UNCHANGED <<pixels, bucket, lastCut, lastEmit, degenerate, medianOut>>

\* recurse with iter_count == 0: result.push(self.color_mean()), and return
RecurseLeaf ==
    /\ pc = "running"
    /\ stack # <<>>
    /\ Head(stack).iter_count = 0
    /\ LET call == Head(stack) IN
        IF color_mean_panics(call.colors)
          THEN /\ pc' = "panic"
               /\ UNCHANGED <<result, lastEmit, stack>>
          ELSE /\ result' = Append(result, color_mean(call.colors))
               /\ lastEmit' = [some |-> TRUE, colors |-> call.colors,
                               depth |-> call.depth,
                               color |-> color_mean(call.colors)]
               /\ stack' = Tail(stack)
               /\ pc' = IF stack' = <<>> THEN "done" ELSE "running"
    /\ UNCHANGED <<pixels, bucket, iter, lastCut, degenerate, medianOut>>

\* recurse with iter_count > 0: median_cut, then the calls on its two sides
RecurseSplit ==
    /\ pc = "running"
    /\ stack # <<>>
    /\ Head(stack).iter_count > 0
    /\ LET call == Head(stack)
           cut == median_cut(call.colors)
       IN
        IF median_cut_panics(call.colors)
          THEN /\ pc' = "panic"
               /\ UNCHANGED <<lastCut, degenerate, bucket, stack>>
          ELSE /\ lastCut' = [some |-> TRUE, input |-> call.colors,
                              above |-> cut.above, below |-> cut.below,
                              channel |-> cut.channel, median |-> cut.median,
                              self |-> cut.self]
               /\ degenerate' = (degenerate \/ ~cut.above.some \/ ~cut.below.some)
               \* make_palette's own bucket is sorted in place by its median_cut
               /\ bucket' = IF call.depth = 0 THEN Some(cut.self) ELSE bucket
               /\ stack' = calls(cut, call.iter_count, call.depth) \o Tail(stack)
               /\ pc' = IF stack' = <<>> THEN "done" ELSE "running"
    /\ UNCHANGED <<pixels, iter, result, lastEmit, medianOut>>

\* bucket.color_median(channel), called on a fresh bucket as color_median_ut does
ColorMedianCall(channel) ==
    /\ pc = "built"
    /\ IF color_median_panics(bucket.colors, channel)
         THEN /\ pc' = "panic"
              /\ UNCHANGED medianOut
         ELSE /\ medianOut' = [some |-> TRUE, input |-> bucket.colors,
                               channel |-> channel,
                               median |-> color_median(bucket.colors, channel)]
              /\ pc' = "median"
    \* sort_colors runs before anything that can panic
    /\ bucket' = Some(sort_colors(bucket.colors, channel))
    /\ UNCHANGED <<pixels, iter, stack, result, lastCut, lastEmit, degenerate>>

Next ==
    \/ FromPixels
    \/ \E n \in 0..MaxIter : MakePalette(n)
    \/ RecurseLeaf
    \/ RecurseSplit
    \/ \E channel \in ColorChannel : ColorMedianCall(channel)

Spec == Init /\ [][Next]_vars

\* ------------------------------------------------------- claim vocabulary

Range(s) == {s[i] : i \in 1..Len(s)}

\* How many times colour c occurs in the sequence s.
Count(s, c) == Cardinality({i \in 1..Len(s) : s[i] = c})

\* The k-th smallest (k = 1 is the smallest) of a sequence of numbers.
KthSmallest(vals, k) ==
    CHOOSE v \in Range(vals) :
        /\ Cardinality({i \in 1..Len(vals) : vals[i] < v}) < k
        /\ k <= Cardinality({i \in 1..Len(vals) : vals[i] <= v})

\* The median as the claim words it: the middle value of the ascending
\* order for an odd count, the floor of the mean of the two middle values
\* for an even count.
MedianOf(colors, channel) ==
    LET vals == ChannelValues(colors, channel)
        half == Len(vals) \div 2
    IN  IF Len(vals) % 2 = 1
          THEN KthSmallest(vals, half + 1)
          ELSE (KthSmallest(vals, half) + KthSmallest(vals, half + 1)) \div 2

\* range(c) = max(c) - min(c) over the bucket's colours.
RangeOf(colors, channel) ==
    LET vals == Range(ChannelValues(colors, channel))
    IN  CHOOSE d \in {x - y : x \in vals, y \in vals} :
            \A x \in vals, y \in vals : x - y <= d

\* The palette as the claim defines it: depth-first, above before below.
RECURSIVE PaletteOf(_, _)
PaletteOf(colors, n) ==
    IF n = 0 THEN <<color_mean(colors)>>
    ELSE LET cut == median_cut(colors)
         IN  (IF cut.above.some THEN PaletteOf(cut.above.colors, n - 1) ELSE <<>>)
             \o (IF cut.below.some THEN PaletteOf(cut.below.colors, n - 1) ELSE <<>>)

\* The colours differ on R, G or B.
DifferRGB(c, d) == c.r # d.r \/ c.g # d.g \/ c.b # d.b

\* ------------------------------------------------------------------ claims

\* C1: make_palette(n) on a non-empty pixel sequence returns exactly 2^n
\* colours if every median_cut of the recursion returned two buckets, and
\* strictly fewer than 2^n if some median_cut returned a None side.
C1_PaletteSize ==
    pc = "done" =>
        /\ ~degenerate => Len(result) = 2 ^ iter
        /\ degenerate => Len(result) < 2 ^ iter

\* make_palette(2) finished with four colours, every cut having two sides.
C1_Witness ==
    pc = "done" /\ iter = 2 /\ ~degenerate /\ Len(result) = 4

\* C2: the palette of make_palette(n) is [color_mean of the bucket] for
\* n = 0 and, for n > 0, the palette of the above sub-bucket for n - 1
\* followed by that of the below sub-bucket for n - 1 (nothing for an absent
\* one); every colour is pushed at recursion depth exactly n.
C2_DepthFirstOrder ==
    /\ pc = "done" => result = PaletteOf(pixels, iter)
    /\ lastEmit.some => lastEmit.depth = iter

\* make_palette(2) finished with three different colours after a cut with
\* an absent side.
C2_Witness ==
    /\ pc = "done" /\ iter = 2 /\ degenerate /\ Len(result) = 3
    /\ result[1] # result[2] /\ result[2] # result[3] /\ result[1] # result[3]

\* C3: from_pixels returns None iff the sequence is empty, and otherwise a
\* bucket whose colors are the given sequence in the given order.
C3_FromPixels ==
    pc \in {"built", "none"} =>
        /\ ~bucket.some <=> pixels = <<>>
        /\ pixels # <<>> => bucket.colors = pixels

\* from_pixels returned a bucket of three pixels, not all the same.
C3_Witness ==
    pc = "built" /\ bucket.some /\ Len(bucket.colors) = 3 /\ pixels[1] # pixels[2]

\* C4: median_cut keeps the pixels: the two sides together are as long as
\* the bucket, and every colour occurs in the two sides together exactly as
\* often as in the bucket.
C4_CutPreserves ==
    lastCut.some =>
        /\ Len(lastCut.above.colors) + Len(lastCut.below.colors) = Len(lastCut.input)
        /\ \A c \in Range(lastCut.input) \cup Range(lastCut.above.colors)
                    \cup Range(lastCut.below.colors) :
              Count(lastCut.above.colors, c) + Count(lastCut.below.colors, c)
                  = Count(lastCut.input, c)

\* A cut of four pixels, one of them twice, into two sides.
C4_Witness ==
    /\ lastCut.some /\ Len(lastCut.input) = 4
    /\ lastCut.above.some /\ lastCut.below.some
    /\ \E c \in Range(lastCut.input) : Count(lastCut.input, c) = 2

\* C5 as stated: make_palette(1) on two pixels of distinct colours returns
\* exactly those two colours, the one higher on the splitting channel first.
C5_TwoDistinctPixels ==
    (pc = "done" /\ iter = 1 /\ Len(pixels) = 2 /\ pixels[1] # pixels[2]) =>
        \E i, j \in 1..2 :
            /\ Index(pixels[i], lastCut.channel) > Index(pixels[j], lastCut.channel)
            /\ result = <<pixels[i], pixels[j]>>

\* C5 amended: make_palette(1) on two pixels that differ on R, G or B
\* returns exactly those two colours, the one higher on the splitting channel
\* first.
C5_TwoPixelsDifferRGB ==
    (pc = "done" /\ iter = 1 /\ Len(pixels) = 2 /\ DifferRGB(pixels[1], pixels[2])) =>
        \E i, j \in 1..2 :
            /\ Index(pixels[i], lastCut.channel) > Index(pixels[j], lastCut.channel)
            /\ result = <<pixels[i], pixels[j]>>

\* make_palette(1) finished on two pixels that differ on R, G and B, given
\* lower one first.
C5_Witness ==
    /\ pc = "done" /\ iter = 1 /\ Len(pixels) = 2
    /\ DifferRGB(pixels[1], pixels[2])
    /\ result = <<pixels[2], pixels[1]>>

\* C6 as stated: whenever the ranges of R and G are equal R is selected, and
\* whenever the ranges of G and B are equal and G's is at least R's, G is
\* selected.
C6_TieBreakAsStated ==
    lastCut.some =>
        LET rr == RangeOf(lastCut.input, "R")
            rg == RangeOf(lastCut.input, "G")
            rb == RangeOf(lastCut.input, "B")
        IN  /\ rr = rg => lastCut.channel = "R"
            /\ (rg = rb /\ rg >= rr) => lastCut.channel = "G"

\* C6 amended: whenever the ranges of R and G are equal and B's range is not
\* greater, R is selected; whenever the ranges of G and B are equal and G's
\* is strictly greater than R's, G is selected.
C6_TieBreak ==
    lastCut.some =>
        LET rr == RangeOf(lastCut.input, "R")
            rg == RangeOf(lastCut.input, "G")
            rb == RangeOf(lastCut.input, "B")
        IN  /\ (rr = rg /\ rb <= rr) => lastCut.channel = "R"
            /\ (rg = rb /\ rg > rr) => lastCut.channel = "G"

\* A cut of a bucket whose G and B ranges tie above R's, made on G.
C6_Witness ==
    /\ lastCut.some /\ lastCut.channel = "G"
    /\ RangeOf(lastCut.input, "G") = RangeOf(lastCut.input, "B")
    /\ RangeOf(lastCut.input, "G") > RangeOf(lastCut.input, "R")

\* C7: color_median(channel) is the middle value of the colours ordered by
\* the channel for an odd count and floor((v[len/2 - 1] + v[len/2]) / 2) for
\* an even count; R values [55, 0, 3, 1] give 2.
C7_ColorMedian ==
    /\ lastCut.some => lastCut.median = MedianOf(lastCut.input, lastCut.channel)
    /\ medianOut.some => medianOut.median = MedianOf(medianOut.input, medianOut.channel)
    /\ (medianOut.some /\ medianOut.input = <<U1, U2, U3, U4>> /\ medianOut.channel = "R")
          => medianOut.median = 2

\* color_median(A) was called on four pixels whose two middle alpha values
\* differ from each other and from the two outer ones.
C7_Witness ==
    /\ medianOut.some /\ medianOut.channel = "A" /\ Len(medianOut.input) = 4
    /\ LET vals == ChannelValues(medianOut.input, "A")
       IN  /\ KthSmallest(vals, 1) < KthSmallest(vals, 2)
           /\ KthSmallest(vals, 2) < KthSmallest(vals, 3)
           /\ KthSmallest(vals, 3) < KthSmallest(vals, 4)

\* C8: above holds exactly the colours strictly greater than the median on
\* the selected channel and below exactly those less than or equal to it; a
\* single-pixel bucket is cut into (None, the bucket of that pixel).
C8_CutPartition ==
    lastCut.some =>
        /\ \A c \in Range(lastCut.input) \cup Range(lastCut.above.colors)
                    \cup Range(lastCut.below.colors) :
              /\ Count(lastCut.above.colors, c) =
                    IF Index(c, lastCut.channel) > lastCut.median
                      THEN Count(lastCut.input, c) ELSE 0
              /\ Count(lastCut.below.colors, c) =
                    IF Index(c, lastCut.channel) <= lastCut.median
                      THEN Count(lastCut.input, c) ELSE 0
        /\ Len(lastCut.input) = 1 =>
              lastCut.above = None /\ lastCut.below = Some(lastCut.input)

\* A cut of three pixels with the median value on both of the lower two:
\* they go below, the third above.
C8_Witness ==
    /\ lastCut.some /\ Len(lastCut.input) = 3
    /\ Len(lastCut.above.colors) = 1 /\ Len(lastCut.below.colors) = 2
    /\ \A i \in 1..2 : Index(lastCut.below.colors[i], lastCut.channel) = lastCut.median

\* C9: mean is floor(sum / count): the quotient q fits 8 bits and
\* q * count <= sum < (q + 1) * count, for each of the four channels of
\* color_mean and for channel_mean; mean of [33, 13, 255, 0, 42] is 68.
C9_MeanFloor ==
    /\ lastEmit.some =>
          \A channel \in ColorChannel :
              LET vals == ChannelValues(lastEmit.colors, channel)
                  q == Index(lastEmit.color, channel)
              IN  /\ q \in 0..255
                  /\ q * Len(vals) <= Sum(vals)
                  /\ Sum(vals) < (q + 1) * Len(vals)
    /\ lastEmit.some =>
          \A channel \in ColorChannel :
              LET vals == ChannelValues(lastEmit.colors, channel)
                  q == channel_mean(lastEmit.colors, channel)
              IN  q * Len(vals) <= Sum(vals) /\ Sum(vals) < (q + 1) * Len(vals)
    /\ lastEmit.some => mean(<<33, 13, 255, 0, 42>>) = 68

\* color_mean reduced a bucket whose alpha values sum to more than 255 and
\* do not divide evenly.
C9_Witness ==
    /\ lastEmit.some /\ Len(lastEmit.colors) >= 2
    /\ Sum(ChannelValues(lastEmit.colors, "A")) > 255
    /\ Sum(ChannelValues(lastEmit.colors, "A")) % Len(lastEmit.colors) # 0

\* C10: highest_range_channel returns G iff range(G) > range(R) and
\* range(B) <= range(G), B iff range(B) > max(range(R), range(G)), R
\* otherwise, and never A.
C10_HighestRange ==
    lastCut.some =>
        LET rr == RangeOf(lastCut.input, "R")
            rg == RangeOf(lastCut.input, "G")
            rb == RangeOf(lastCut.input, "B")
        IN  /\ lastCut.channel = "G" <=> (rg > rr /\ rb <= rg)
            /\ lastCut.channel = "B" <=> (rb > rr /\ rb > rg)
            /\ lastCut.channel = "R" <=> (~(rg > rr /\ rb <= rg) /\ ~(rb > rr /\ rb > rg))
            /\ lastCut.channel # "A"

\* A cut made on B of a bucket whose alpha range is the greatest of the four.
C10_Witness ==
    /\ lastCut.some /\ lastCut.channel = "B"
    /\ RangeOf(lastCut.input, "A") > RangeOf(lastCut.input, "B")

\* C11: from a bucket built by from_pixels, no step of make_palette
\* operates on an empty bucket or fails: nothing panics, every bucket a
\* call of recurse runs on (and so every bucket color_ranges, color_median
\* or color_mean reads) is non-empty, the ranges max - min are not below 0,
\* the even count's index len/2 - 1 is not below 0, and a call's iter_count
\* is its caller's minus 1 without going below 0.
C11_NeverFails ==
    /\ pc # "panic"
    /\ \A k \in 1..Len(stack) :
          /\ Len(stack[k].colors) >= 1
          /\ stack[k].iter_count >= 0
          /\ stack[k].iter_count = iter - stack[k].depth
    /\ lastCut.some =>
          /\ Len(lastCut.input) >= 1
          /\ \A channel \in ColorChannel :
                MaxOf(lastCut.input, channel) - MinOf(lastCut.input, channel) >= 0
          /\ Len(lastCut.input) % 2 = 0 => (Len(lastCut.input) \div 2) - 1 >= 0
          /\ lastCut.above.some => Len(lastCut.above.colors) >= 1
          /\ lastCut.below.some => Len(lastCut.below.colors) >= 1
    /\ lastEmit.some => Len(lastEmit.colors) >= 1
    /\ medianOut.some => Len(medianOut.input) >= 1

\* make_palette(2) is under way after a cut of two pixels that left one
\* side None: the one call still to run has a bucket of both pixels and
\* iter_count 1.
C11_Witness ==
    /\ pc = "running" /\ iter = 2
    /\ lastCut.some /\ Len(lastCut.input) = 2 /\ ~lastCut.above.some
    /\ Len(stack) = 1 /\ stack[1].iter_count = 1 /\ Len(stack[1].colors) = 2

\* C12: median_cut of a non-empty bucket never returns None for the below
\* side, the smallest value on the selected channel being at most the
\* median; only above can be None.  So make_palette returns at least one
\* colour.
C12_BelowNeverNone ==
    /\ lastCut.some =>
          /\ lastCut.below.some
          /\ \E i \in 1..Len(lastCut.input) :
                /\ \A j \in 1..Len(lastCut.input) :
                      Index(lastCut.input[i], lastCut.channel)
                          <= Index(lastCut.input[j], lastCut.channel)
                /\ Index(lastCut.input[i], lastCut.channel) <= lastCut.median
    /\ pc = "done" => Len(result) >= 1

\* make_palette(2) on four pixels finished with one colour only: both of
\* its cuts returned None for above and the whole bucket for below.
C12_Witness ==
    /\ pc = "done" /\ iter = 2 /\ Len(pixels) = 4 /\ Len(result) = 1
    /\ lastCut.some /\ ~lastCut.above.some
    /\ lastCut.below.some /\ Len(lastCut.below.colors) = 4

\* c comes before d in the fixed order of colours: ascending by r, then g,
\* then b, then a.
Before(c, d) ==
    \/ c.r < d.r
    \/ c.r = d.r /\ c.g < d.g
    \/ c.r = d.r /\ c.g = d.g /\ c.b < d.b
    \/ c.r = d.r /\ c.g = d.g /\ c.b = d.b /\ c.a < d.a

\* The pixels of s in the fixed order: a sequence that is the same for every
\* reordering of s, since it is read off the multiset of s alone.
InFixedOrder(s) ==
    [k \in 1..Len(s) |->
        CHOOSE c \in Range(s) :
            /\ Cardinality({i \in 1..Len(s) : Before(s[i], c)}) < k
            /\ k <= Cardinality({i \in 1..Len(s) : Before(s[i], c) \/ s[i] = c})]

\* C13: the palette depends on the multiset of the input pixels only, not
\* on their order, although median_cut sorts the bucket's own colours in
\* place: what make_palette(n) returns on the pixels as given is the palette
\* of the same pixels put in the fixed order, which every reordering of
\* them shares.
C13_OrderIndependent ==
    pc = "done" => result = PaletteOf(InFixedOrder(pixels), iter)

\* make_palette(2) finished with at least three colours on four different
\* pixels that were not given in the fixed order and that its median_cut
\* had to reorder.
C13_Witness ==
    /\ pc = "done" /\ iter = 2 /\ Len(pixels) = 4 /\ Len(result) >= 3
    /\ Cardinality(Range(pixels)) = 4
    /\ pixels # InFixedOrder(pixels)
    /\ bucket.colors # pixels

====
